---------------------------- MODULE Spec2Model ----------------------------
(***************************************************************************)
(* hyperion: a labelled, weighted, directed multigraph kept in Redis.      *)
(* The model follows src/hyperion/core.py: the Redis database is one       *)
(* mapping from key strings to values (a counter, a set, sorted sets), the *)
(* Graph methods are operators from a database to a database and a result, *)
(* and every public call is one action.                                    *)
(***************************************************************************)
EXTENDS Integers, Sequences, FiniteSets, TLC

VARIABLES
    r,      \* Graph._r: the Redis database, key string -> value
    last,   \* the last call made on the graph: its name, arguments and result
    live,   \* history: the edges added by add_edge and not removed since
    nops,   \* number of calls made so far
    codec,  \* Graph._encode / Graph._decode: the serializer the graph was built with
    hist,   \* history: auto - the names add_vertex() returned, in order;
            \*          props - the value last set for each (vertex, property)
    procs   \* the calls of concurrent callers in progress: caller -> position and locals

vars == <<r, last, live, nops, codec, hist, procs>>

(***************************************************************************)
(* Bounds and input sets                                                   *)
(***************************************************************************)
\* Calls made in one behaviour.
MaxOps == 3

\* Vertex names the callers pass (auto-generated names are "1", "2", ...).
ExplicitNames == {"1", "2"}

\* Python values used as names and labels: None and str.
None == [t |-> "NoneType"]
Str(s) == [t |-> "str", s |-> s]

Labels == {None, Str("follows")}
Weights == {1, 2}

\* Property names and values; IntVal(0) and Str("") are the zero and the empty value
IntVal(i) == [t |-> "int", i |-> i]
PropNames == {"k"}
PropValues == {Str("bar"), Str(""), IntVal(0)}

\* The encoder/decoder pairs a Graph is built with: (json.dumps, json.loads),
\* the default, and (str, str)
Codecs == {"json", "str"}

(***************************************************************************)
(* Python helpers                                                          *)
(***************************************************************************)
Digits == <<"0", "1", "2", "3", "4", "5", "6", "7", "8", "9">>

\* str(n) of a non-negative integer
RECURSIVE str(_)
str(n) == IF n < 10 THEN Digits[n + 1] ELSE str(n \div 10) \o Digits[(n % 10) + 1]

\* json.dumps of None or of a str without characters to escape
encoder(x) == IF x.t = "NoneType" THEN "null" ELSE "\"" \o x.s \o "\""

\* json.loads of a string json.dumps produced
decoder(s) == CHOOSE x \in Labels : encoder(x) = s

\* json.dumps of a property value
json_dumps(x) == IF x.t = "int" THEN str(x.i) ELSE encoder(x)

\* str(x) of a property value
py_str(x) == IF x.t = "int" THEN str(x.i) ELSE IF x.t = "NoneType" THEN "None" ELSE x.s

\* self._encode(value) and self._decode(value) of a Graph built with codec c;
\* json.loads inverts json.dumps, str of a str is the str itself
encode(c, x) == IF c = "json" THEN json_dumps(x) ELSE py_str(x)
decode(c, s) ==
    IF c = "json" THEN CHOOSE x \in PropValues \cup Labels : json_dumps(x) = s
    ELSE Str(s)

\* ':'.join(parts)
RECURSIVE join(_)
join(parts) ==
    IF Len(parts) = 0 THEN ""
    ELSE IF Len(parts) = 1 THEN parts[1]
    ELSE parts[1] \o ":" \o join(Tail(parts))

(***************************************************************************)
(* Graph.__init__: the key scheme                                          *)
(***************************************************************************)
GraphName == "testing"

make_key(parts) == join(<<GraphName>> \o parts)
counter_key == make_key(<<"|V|">>)
vertices_key == make_key(<<"V(G)">>)
vertex_key(name) == make_key(<<"V", name>>)
labels_out_key(name) == make_key(<<"L(E(V))", "out", name>>)
labels_in_key(name) == make_key(<<"L(E(V))", "in", name>>)
\* An out-adjacency key that leaves the label out
edges_out_key_unlabelled(name, enc) == make_key(<<"E(V)", "out", name>>)
edges_out_key(name, enc) == make_key(<<"E(V)", "out", name, enc>>)
edges_in_key(name, enc) == make_key(<<"E(V)", "in", name, enc>>)

(***************************************************************************)
(* Redis commands.  A key that holds nothing does not exist; a set or a    *)
(* sorted set that loses its last member is deleted.  A sorted set is a    *)
(* function from its members to their scores.                              *)
(***************************************************************************)
EmptyZ == << >>

Get(db, k, empty) == IF k \in DOMAIN db THEN db[k] ELSE empty

Put(db, k, v, empty) ==
    IF v = empty
    THEN [x \in DOMAIN db \ {k} |-> db[x]]
    ELSE [x \in DOMAIN db \cup {k} |-> IF x = k THEN v ELSE db[x]]

\* INCR: the new database and the reply (the value after the increment)
incr_reply(db, k) == (IF k \in DOMAIN db THEN db[k] ELSE 0) + 1
incr(db, k) == [x \in DOMAIN db \cup {k} |-> IF x = k THEN incr_reply(db, k) ELSE db[x]]

sismember(db, k, m) == m \in Get(db, k, {})
scard(db, k) == Cardinality(Get(db, k, {}))
smembers(db, k) == Get(db, k, {})
sadd_reply(db, k, m) == IF m \in Get(db, k, {}) THEN 0 ELSE 1
sadd(db, k, m) == Put(db, k, Get(db, k, {}) \cup {m}, {})
srem_reply(db, k, m) == IF m \in Get(db, k, {}) THEN 1 ELSE 0
srem(db, k, m) == Put(db, k, Get(db, k, {}) \ {m}, {})

ZWith(z, m, s) == [x \in DOMAIN z \cup {m} |-> IF x = m THEN s ELSE z[x]]
ZWithout(z, m) == [x \in DOMAIN z \ {m} |-> z[x]]

zadd(db, k, m, s) == Put(db, k, ZWith(Get(db, k, EmptyZ), m, s), EmptyZ)

zincrby(db, k, m, d) ==
    LET z == Get(db, k, EmptyZ)
        old == IF m \in DOMAIN z THEN z[m] ELSE 0
    IN  Put(db, k, ZWith(z, m, old + d), EmptyZ)

zrem(db, k, m) == Put(db, k, ZWithout(Get(db, k, EmptyZ), m), EmptyZ)

\* ZSCORE: None for a missing member, else [t |-> "float", v |-> score]
Float(v) == [t |-> "float", v |-> v]
zscore(db, k, m) ==
    LET z == Get(db, k, EmptyZ)
    IN  IF m \in DOMAIN z THEN Float(z[m]) ELSE None

\* Redis orders a sorted set by score, members of equal score lexicographically.
\* LexOrder lists the member strings of the model in that order.
LexOrder == <<"\"follows\"">> \o [i \in 1..9 |-> str(i)] \o <<"null">>
LexRank(m) == CHOOSE i \in DOMAIN LexOrder : LexOrder[i] = m

ZBefore(z, x, y) == z[x] < z[y] \/ (z[x] = z[y] /\ LexRank(x) <= LexRank(y))

RECURSIVE ZOrdered(_, _)
ZOrdered(z, S) ==
    IF S = {} THEN << >>
    ELSE LET m == CHOOSE x \in S : \A y \in S : ZBefore(z, x, y)
         IN  <<m>> \o ZOrdered(z, S \ {m})

\* ZRANGEBYSCORE key min +inf
zrangebyscore_min(db, k, min) ==
    LET z == Get(db, k, EmptyZ)
    IN  ZOrdered(z, {m \in DOMAIN z : z[m] >= min})

\* ZRANGEBYSCORE key -inf +inf WITHSCORES
zrangebyscore_all_withscores(db, k) ==
    LET z == Get(db, k, EmptyZ)
        ms == ZOrdered(z, DOMAIN z)
    IN  [i \in DOMAIN ms |-> <<ms[i], z[ms[i]]>>]

\* HSET and HGET on a hash, a function from field to string; HGET of a field
\* the hash does not hold replies nil, None in the client
EmptyH == << >>
hset_reply(db, k, field, value) == IF field \in DOMAIN Get(db, k, EmptyH) THEN 0 ELSE 1
hset(db, k, field, value) ==
    LET h == Get(db, k, EmptyH)
    IN  Put(db, k, [f \in DOMAIN h \cup {field} |-> IF f = field THEN value ELSE h[f]],
            EmptyH)
hget(db, k, field) ==
    IF field \in DOMAIN Get(db, k, EmptyH) THEN Str(Get(db, k, EmptyH)[field]) ELSE None

(***************************************************************************)
(* Handles and results                                                     *)
(***************************************************************************)
\* Vertex(g, name) and Edge(g, fromv, tov, label, weight): no cached state
Vertex(name) == [name |-> name]
Edge(fromv, tov, label, weight) ==
    [fromv |-> fromv, tov |-> tov, label |-> label, weight |-> weight]

\* The edge's identity: the fields Edge.__eq__ compares
Triple(e) == <<e.fromv.name, e.tov.name, e.label>>

\* A call returns a value or raises LookupError with one of two messages.
NotFound == "does not exist"
AlreadyExists == "already exists"
Ok(v) == [exc |-> "none", val |-> v]
Raise(msg) == [exc |-> "LookupError", msg |-> msg]
Raised(ret, msg) == ret.exc = "LookupError" /\ ret.msg = msg

(***************************************************************************)
(* Graph: vertices                                                         *)
(***************************************************************************)
has_vertex(db, v) == sismember(db, vertices_key, v.name)

\* get_vertex without the membership test
get_vertex_unchecked(db, name) == Ok(Vertex(name))

get_vertex(db, name) ==
    IF ~has_vertex(db, Vertex(name)) THEN Raise(NotFound) ELSE Ok(Vertex(name))

\* _store_vertex that sends no SADD
store_vertex_dropped(db, name) == db

\* _store_vertex: SADD on the vertex set; the reply says whether the name was new
store_vertex_reply(db, name) == sadd_reply(db, vertices_key, name)
store_vertex(db, name) == sadd(db, vertices_key, name)

\* add_vertex that ignores the reply of _store_vertex
add_vertex_unchecked(db, name) ==
    LET db1 == IF name = None THEN incr(db, counter_key) ELSE db
        nm == IF name = None THEN str(incr_reply(db, counter_key)) ELSE name.s
    IN  [db |-> store_vertex(db1, nm), ret |-> Ok(Vertex(nm))]

\* add_vertex that names an unnamed vertex after the size of the vertex set
add_vertex_by_order(db, name) ==
    LET db1 == IF name = None THEN incr(db, counter_key) ELSE db
        nm == IF name = None THEN str(scard(db, vertices_key) + 1) ELSE name.s
    IN  IF store_vertex_reply(db1, nm) # 1
        THEN [db |-> store_vertex(db1, nm), ret |-> Raise(AlreadyExists)]
        ELSE [db |-> store_vertex(db1, nm), ret |-> Ok(Vertex(nm))]

\* add_vertex(name=None): [db |-> database after the call, ret |-> result]
add_vertex(db, name) ==
    LET db1 == IF name = None THEN incr(db, counter_key) ELSE db
        nm == IF name = None THEN str(incr_reply(db, counter_key)) ELSE name.s
    IN  IF store_vertex_reply(db1, nm) # 1
        THEN [db |-> store_vertex(db1, nm), ret |-> Raise(AlreadyExists)]
        ELSE [db |-> store_vertex(db1, nm), ret |-> Ok(Vertex(nm))]

order(db) == scard(db, vertices_key)

vertices(db) == {Vertex(n) : n \in smembers(db, vertices_key)}

(***************************************************************************)
(* Graph: edges                                                            *)
(***************************************************************************)
\* _store_edge: the four writes, in the order the pipeline executes them
store_edge(db, from_name, to_name, enc, weight) ==
    LET d1 == zincrby(db, labels_out_key(from_name), enc, 1)
        d2 == zadd(d1, edges_out_key(from_name, enc), to_name, weight)
        d3 == zincrby(d2, labels_in_key(to_name), enc, 1)
    IN  zadd(d3, edges_in_key(to_name, enc), from_name, weight)

add_edge(db, fromn, ton, label, weight) ==
    IF get_vertex(db, fromn).exc # "none" THEN [db |-> db, ret |-> get_vertex(db, fromn)]
    ELSE IF get_vertex(db, ton).exc # "none" THEN [db |-> db, ret |-> get_vertex(db, ton)]
    ELSE [db |-> store_edge(db, fromn, ton, encoder(label), weight),
          ret |-> Ok(Edge(Vertex(fromn), Vertex(ton), label, weight))]

\* remove_edge that forgets the two commands on the target's keys
remove_edge_out_only(db, e) ==
    LET enc == encoder(e.label)
        d1 == zincrby(db, labels_out_key(e.fromv.name), enc, -1)
    IN  zrem(d1, edges_out_key(e.fromv.name, enc), e.tov.name)

\* remove_edge(e): the database after the pipeline; the call returns True
remove_edge(db, e) ==
    LET enc == encoder(e.label)
        d1 == zincrby(db, labels_out_key(e.fromv.name), enc, -1)
        d2 == zrem(d1, edges_out_key(e.fromv.name, enc), e.tov.name)
        d3 == zincrby(d2, labels_in_key(e.tov.name), enc, -1)
    IN  zrem(d3, edges_in_key(e.tov.name, enc), e.fromv.name)

\* The edges edges_from yields for one label of the label index
edges_from_label(db, v, enc) ==
    LET ns == zrangebyscore_all_withscores(db, edges_out_key(v.name, enc))
    IN  [i \in DOMAIN ns |-> Edge(v, Vertex(ns[i][1]), decoder(enc), ns[i][2])]

edges_to_label(db, v, enc) ==
    LET ns == zrangebyscore_all_withscores(db, edges_in_key(v.name, enc))
    IN  [i \in DOMAIN ns |-> Edge(Vertex(ns[i][1]), v, decoder(enc), ns[i][2])]

RECURSIVE Concat(_)
Concat(seqs) == IF Len(seqs) = 0 THEN << >> ELSE Head(seqs) \o Concat(Tail(seqs))

\* edges_from(v) run to its end against one database: the edges, in order
edges_from(db, v) ==
    IF get_vertex(db, v.name).exc # "none" THEN get_vertex(db, v.name)
    ELSE LET labels == zrangebyscore_min(db, labels_out_key(v.name), 1)
         IN  Ok(Concat([i \in DOMAIN labels |-> edges_from_label(db, v, labels[i])]))

edges_to(db, v) ==
    IF get_vertex(db, v.name).exc # "none" THEN get_vertex(db, v.name)
    ELSE LET labels == zrangebyscore_min(db, labels_in_key(v.name), 1)
         IN  Ok(Concat([i \in DOMAIN labels |-> edges_to_label(db, v, labels[i])]))

\* edge_between that looks for v2 -> v1 first
edge_between_reversed(db, v1, v2, label) ==
    LET w1 == zscore(db, edges_out_key(v1.name, encoder(label)), v2.name)
        w2 == zscore(db, edges_out_key(v2.name, encoder(label)), v1.name)
    IN  IF w2 # None THEN Edge(v2, v1, label, w2.v)
        ELSE IF w1 # None THEN Edge(v1, v2, label, w1.v)
        ELSE None

edge_between(db, v1, v2, label) ==
    LET w1 == zscore(db, edges_out_key(v1.name, encoder(label)), v2.name)
        w2 == zscore(db, edges_out_key(v2.name, encoder(label)), v1.name)
    IN  IF w1 # None THEN Edge(v1, v2, label, w1.v)
        ELSE IF w2 # None THEN Edge(v2, v1, label, w2.v)
        ELSE None

(***************************************************************************)
(* Graph.remove_vertex.  edges_from / edges_to are generators: the labels  *)
(* are read when the loop starts, the adjacency set of a label when the    *)
(* loop reaches that label, so each read sees the removals made before it. *)
(***************************************************************************)
RECURSIVE remove_each(_, _)
remove_each(db, es) ==
    IF Len(es) = 0 THEN db ELSE remove_each(remove_edge(db, Head(es)), Tail(es))

RECURSIVE remove_edges_out(_, _, _)
remove_edges_out(db, v, labels) ==
    IF Len(labels) = 0 THEN db
    ELSE remove_edges_out(remove_each(db, edges_from_label(db, v, Head(labels))),
                          v, Tail(labels))

RECURSIVE remove_edges_in(_, _, _)
remove_edges_in(db, v, labels) ==
    IF Len(labels) = 0 THEN db
    ELSE remove_edges_in(remove_each(db, edges_to_label(db, v, Head(labels))),
                         v, Tail(labels))

\* A remove_vertex that also deletes the vertex's property hash
remove_vertex_with_properties(db, name) ==
    IF get_vertex(db, name).exc # "none" THEN [db |-> db, ret |-> get_vertex(db, name)]
    ELSE LET v == Vertex(name)
             d1 == remove_edges_out(db, v, zrangebyscore_min(db, labels_out_key(name), 1))
             d2 == remove_edges_in(d1, v, zrangebyscore_min(d1, labels_in_key(name), 1))
             d3 == Put(d2, vertex_key(name), EmptyH, EmptyH)
         IN  [db |-> srem(d3, vertices_key, name),
              ret |-> Ok(srem_reply(d3, vertices_key, name))]

remove_vertex(db, name) ==
    IF get_vertex(db, name).exc # "none" THEN [db |-> db, ret |-> get_vertex(db, name)]
    ELSE LET v == Vertex(name)
             d1 == remove_edges_out(db, v, zrangebyscore_min(db, labels_out_key(name), 1))
             d2 == remove_edges_in(d1, v, zrangebyscore_min(d1, labels_in_key(name), 1))
         IN  [db |-> srem(d2, vertices_key, name),
              ret |-> Ok(srem_reply(d2, vertices_key, name))]

(***************************************************************************)
(* Graph: vertex properties, of a Graph built with codec c.  Neither call  *)
(* looks at the vertex set.                                                *)
(***************************************************************************)
KeyError(name) == [exc |-> "KeyError", msg |-> name]

\* "not value": value is None or the empty string
Falsy(value) == value = None \/ value = Str("")

get_vertex_property(c, db, v, name) ==
    LET value == hget(db, vertex_key(v.name), name)
    IN  IF Falsy(value) THEN KeyError(name) ELSE Ok(decode(c, value.s))

set_vertex_property(c, db, v, name, value) ==
    [db |-> hset(db, vertex_key(v.name), name, encode(c, value)),
     ret |-> Ok(hset_reply(db, vertex_key(v.name), name, encode(c, value)))]

(***************************************************************************)
(* Graph._load_file.  A file is a sequence of lines, a line a sequence of  *)
(* characters.  The commands a chunk queues on its pipeline read no reply, *)
(* so the pipeline is modelled by the database the queued commands lead    *)
(* to: pipe.execute() makes it the database, an exception before it        *)
(* discards it.                                                            *)
(***************************************************************************)
Whitespace == {" ", "\t", "\n", "\r"}

\* line.strip()
RECURSIVE lstrip(_)
lstrip(s) == IF Len(s) > 0 /\ Head(s) \in Whitespace THEN lstrip(Tail(s)) ELSE s
RECURSIVE rstrip(_)
rstrip(s) ==
    IF Len(s) > 0 /\ s[Len(s)] \in Whitespace THEN rstrip(SubSeq(s, 1, Len(s) - 1)) ELSE s
strip(s) == rstrip(lstrip(s))

\* line.startswith(c)
startswith(s, c) == Len(s) > 0 /\ s[1] = c

\* line.split(delim): one field more than there are delimiters
RECURSIVE split(_, _)
split(s, delim) ==
    IF \E i \in DOMAIN s : s[i] = delim
    THEN LET i == CHOOSE j \in DOMAIN s : s[j] = delim /\ \A k \in 1..(j - 1) : s[k] # delim
         IN  <<SubSeq(s, 1, i - 1)>> \o split(SubSeq(s, i + 1, Len(s)), delim)
    ELSE <<s>>

\* The characters as one str
RECURSIVE text(_)
text(s) == IF Len(s) = 0 THEN "" ELSE Head(s) \o text(Tail(s))

RuntimeError(msg) == [exc |-> "RuntimeError", msg |-> msg]
ValueError(msg) == [exc |-> "ValueError", msg |-> msg]

\* float(weight) of a field: the number a string of digits writes; the other
\* fields of the files below are no numbers
IsDigits(s) == Len(s) > 0 /\ \A i \in DOMAIN s : \E d \in DOMAIN Digits : Digits[d] = s[i]
DigitValue(c) == (CHOOSE d \in DOMAIN Digits : Digits[d] = c) - 1
RECURSIVE float(_)
float(s) ==
    IF Len(s) = 1 THEN DigitValue(s[1])
    ELSE 10 * float(SubSeq(s, 1, Len(s) - 1)) + DigitValue(s[Len(s)])

\* The fields read as (from, to), (from, to, label) or (from, to, weight, label)
fields_label_last(line, fields) ==
    LET n == Len(fields)
    IN  IF n \notin {2, 3, 4} THEN RuntimeError("invalid record: " \o text(line))
        ELSE IF n = 4 /\ ~IsDigits(fields[3])
        THEN ValueError("could not convert string to float: " \o text(fields[3]))
        ELSE Ok([from_id |-> text(fields[1]),
                 to_id |-> text(fields[2]),
                 label |-> IF n = 2 THEN None ELSE Str(text(fields[n])),
                 weight |-> IF n = 4 THEN float(fields[3]) ELSE 1])

\* The if/elif chain on len(fields): the record of a line, or what it raises
record_of_fields(line, fields) ==
    LET n == Len(fields)
    IN  IF n \notin {2, 3, 4} THEN RuntimeError("invalid record: " \o text(line))
        ELSE IF n = 4 /\ ~IsDigits(fields[4])
        THEN ValueError("could not convert string to float: " \o text(fields[4]))
        ELSE Ok([from_id |-> text(fields[1]),
                 to_id |-> text(fields[IF n = 2 THEN 2 ELSE 3]),
                 label |-> IF n = 2 THEN None ELSE Str(text(fields[2])),
                 weight |-> IF n = 4 THEN float(fields[4]) ELSE 1])

\* "if line.startswith('#') or not line: continue", of the stripped line
skipped(line) == startswith(line, "#") \/ Len(line) = 0

\* map(str.strip, line.split(delim))
fields_of(line, delim) ==
    LET fields == split(line, delim) IN [i \in DOMAIN fields |-> strip(fields[i])]

\* The three calls a record queues on the pipeline
queue_record(pipe, rec) ==
    store_edge(store_vertex(store_vertex(pipe, rec.from_id), rec.to_id),
               rec.from_id, rec.to_id, encoder(rec.label), rec.weight)

\* The for loop over the lines of a chunk: the pipeline, the number of records
\* queued on it, and what was raised
RECURSIVE load_lines(_, _, _)
load_lines(pipe, chunk, delim) ==
    IF Len(chunk) = 0 THEN [db |-> pipe, ret |-> Ok(None), records |-> 0]
    ELSE LET line == strip(Head(chunk))
         IN  IF skipped(line) THEN load_lines(pipe, Tail(chunk), delim)
             ELSE LET rec == record_of_fields(line, fields_of(line, delim))
                  IN  IF rec.exc # "none" THEN [db |-> pipe, ret |-> rec, records |-> 0]
                      ELSE LET rest == load_lines(queue_record(pipe, rec.val),
                                                  Tail(chunk), delim)
                           IN  [rest EXCEPT !.records = @ + 1]

\* A chunk that raises still executes the commands queued before the line
load_chunk_flushing(db, chunk, delim) == load_lines(db, chunk, delim)

\* One chunk: "with self._r.pipeline() as pipe: ... pipe.execute()"
load_chunk(db, chunk, delim) ==
    LET queued == load_lines(db, chunk, delim)
    IN  IF queued.ret.exc # "none" THEN [db |-> db, ret |-> queued.ret, records |-> 0]
        ELSE queued

\* A chunker that counts the lines that are not skipped only
RECURSIVE chunker_of_records(_, _)
chunker_of_records(lines, n) ==
    LET kept == {i \in DOMAIN lines : ~skipped(strip(lines[i]))}
        cut == IF Cardinality(kept) <= n THEN Len(lines)
               ELSE (CHOOSE i \in kept : Cardinality({j \in kept : j <= i}) = n + 1) - 1
    IN  IF Len(lines) = 0 THEN << >>
        ELSE <<SubSeq(lines, 1, cut)>> \o chunker_of_records(SubSeq(lines, cut + 1, Len(lines)), n)

\* chunker(iterable, n): izip_longest takes n lines at a time and pads the last
\* chunk with Filler, which ifilterfalse drops again
RECURSIVE chunker(_, _)
chunker(lines, n) ==
    IF Len(lines) = 0 THEN << >>
    ELSE IF Len(lines) <= n THEN <<lines>>
    ELSE <<SubSeq(lines, 1, n)>> \o chunker(SubSeq(lines, n + 1, Len(lines)), n)

\* The for loop over the chunks; batches lists, for each pipeline executed, the
\* number of lines of its chunk and of records it applied
RECURSIVE load_chunks(_, _, _)
load_chunks(db, chunks, delim) ==
    IF Len(chunks) = 0 THEN [db |-> db, ret |-> Ok(None), batches |-> << >>]
    ELSE LET first == load_chunk(db, Head(chunks), delim)
         IN  IF first.ret.exc # "none"
             THEN [db |-> first.db, ret |-> first.ret, batches |-> << >>]
             ELSE LET rest == load_chunks(first.db, Tail(chunks), delim)
                  IN  [rest EXCEPT !.batches =
                          <<[lines |-> Len(Head(chunks)), records |-> first.records]>> \o @]

load_file(db, file, chunksize, delim) == load_chunks(db, chunker(file, chunksize), delim)

load_csv(db, file, chunksize) == load_file(db, file, chunksize, ",")

(***************************************************************************)
(* Result sets.  ComponentSet is a Python set; Vertex and Edge define      *)
(* __eq__ and no __hash__, so (Python 2) their hash is that of object: the *)
(* object's identity.  An object is modelled with its identity, id: the    *)
(* path of the calls that created it.                                      *)
(***************************************************************************)
\* A handle the caller holds
VertexObject(name) == [id |-> <<0>>, name |-> name]

\* object.__hash__
object_hash(o) == o.id

\* Vertex.__eq__ and Edge.__eq__
vertex_eq(a, b) == a.name = b.name
edge_eq(a, b) == a.fromv.name = b.fromv.name /\ a.tov.name = b.tov.name /\ a.label = b.label

\* set.add: an element is already there when a member has its hash and is it or equals it
RECURSIVE VertexSet(_)
VertexSet(vs) ==
    IF Len(vs) = 0 THEN {}
    ELSE LET S == VertexSet(SubSeq(vs, 1, Len(vs) - 1))
             o == vs[Len(vs)]
         IN  IF \E x \in S : object_hash(x) = object_hash(o) /\ (x.id = o.id \/ vertex_eq(x, o))
             THEN S ELSE S \cup {o}

RECURSIVE EdgeSet(_)
EdgeSet(es) ==
    IF Len(es) = 0 THEN {}
    ELSE LET S == EdgeSet(SubSeq(es, 1, Len(es) - 1))
             o == es[Len(es)]
         IN  IF \E x \in S : object_hash(x) = object_hash(o) /\ (x.id = o.id \/ edge_eq(x, o))
             THEN S ELSE S \cup {o}

\* Iteration over a Python set, in some order
RECURSIVE Iterate(_)
Iterate(S) ==
    IF S = {} THEN << >>
    ELSE LET x == CHOOSE y \in S : TRUE IN <<x>> \o Iterate(S \ {x})

\* Vertex.edges_out(): each edge yielded is a new Edge whose tov is a new Vertex
edges_out(db, v) ==
    LET es == edges_from(db, Vertex(v.name)).val
    IN  [i \in DOMAIN es |->
            [id |-> v.id \o <<0, i>>, fromv |-> v,
             tov |-> [id |-> v.id \o <<1, i>>, name |-> es[i].tov.name],
             label |-> es[i].label, weight |-> es[i].weight]]

\* EdgeSet.in_v
EdgeSet_in_v(ES) == LET es == Iterate(ES) IN VertexSet([i \in DOMAIN es |-> es[i].tov])

\* VertexSet.out_e and VertexSet.out_v
VertexSet_out_e(db, VS) ==
    LET vs == Iterate(VS) IN EdgeSet(Concat([i \in DOMAIN vs |-> edges_out(db, vs[i])]))
VertexSet_out_v(db, VS) == EdgeSet_in_v(VertexSet_out_e(db, VS))

\* Vertex.out_e and Vertex.out_v
Vertex_out_e(db, v) == EdgeSet(edges_out(db, v))
Vertex_out_v(db, v) == VertexSet_out_v(db, VertexSet(<<v>>))

(***************************************************************************)
(* The calls                                                               *)
(***************************************************************************)
EmptyDb == << >>

\* The namespace after two add_vertex() calls: vertices "1" and "2", counter 2
TwoVertices == add_vertex(add_vertex(EmptyDb, None).db, None).db

\* The names the add_vertex() calls that built a namespace returned
AutoNamesOf(db) == [i \in 1..Get(db, counter_key, 0) |-> str(i)]

\* A Graph is opened on a namespace that is empty or already holds two vertices.
Init ==
    /\ r \in {EmptyDb, TwoVertices}
    /\ last = [op |-> "init"]
    /\ live = {}
    /\ nops = 0
    /\ codec = "json"
    /\ hist = [auto |-> AutoNamesOf(r), props |-> << >>]
    /\ procs = << >>

SameTriple(e, f) == Triple(e) = Triple(f)

AddVertex(name) ==
    /\ nops < MaxOps
    /\ r' = add_vertex(r, name).db
    /\ last' = [op |-> "add_vertex", name |-> name, ret |-> add_vertex(r, name).ret]
    /\ live' = live
    /\ nops' = nops + 1
    /\ hist' = IF name = None /\ add_vertex(r, name).ret.exc = "none"
               THEN [hist EXCEPT !.auto = Append(@, add_vertex(r, name).ret.val.name)]
               ELSE hist
    /\ UNCHANGED <<codec, procs>>

AddEdge(fromn, ton, label, weight) ==
    /\ nops < MaxOps
    /\ r' = add_edge(r, fromn, ton, label, weight).db
    /\ last' = [op |-> "add_edge", fromv |-> fromn, tov |-> ton, label |-> label,
                weight |-> weight, ret |-> add_edge(r, fromn, ton, label, weight).ret]
    /\ live' = IF add_edge(r, fromn, ton, label, weight).ret.exc = "none"
               THEN {e \in live : Triple(e) # <<fromn, ton, label>>}
                        \cup {Edge(Vertex(fromn), Vertex(ton), label, weight)}
               ELSE live
    /\ nops' = nops + 1
    /\ UNCHANGED <<codec, hist, procs>>

RemoveEdge(e) ==
    /\ nops < MaxOps
    /\ r' = remove_edge(r, e)
    /\ last' = [op |-> "remove_edge", e |-> e, ret |-> Ok(TRUE)]
    /\ live' = {f \in live : ~SameTriple(e, f)}
    /\ nops' = nops + 1
    /\ UNCHANGED <<codec, hist, procs>>

RemoveVertex(name) ==
    /\ nops < MaxOps
    /\ r' = remove_vertex(r, name).db
    /\ last' = [op |-> "remove_vertex", name |-> name, ret |-> remove_vertex(r, name).ret]
    /\ live' = IF remove_vertex(r, name).ret.exc = "none"
               THEN {e \in live : e.fromv.name # name /\ e.tov.name # name}
               ELSE live
    /\ nops' = nops + 1
    /\ UNCHANGED <<codec, hist, procs>>

\* The handles a caller can build: any two names, any label (weight unused by remove_edge)
EdgeHandles ==
    {Edge(Vertex(a), Vertex(b), l, 1) : a \in ExplicitNames, b \in ExplicitNames, l \in Labels}

NameArgs == {None} \cup {Str(n) : n \in ExplicitNames}

Next ==
    \/ \E name \in NameArgs : AddVertex(name)
    \/ \E a \in ExplicitNames, b \in ExplicitNames, l \in Labels, w \in Weights :
          AddEdge(a, b, l, w)
    \/ \E e \in EdgeHandles : RemoveEdge(e)
    \/ \E name \in ExplicitNames : RemoveVertex(name)

Spec == Init /\ [][Next]_vars

\* Calls that only add: add_vertex and add_edge
NextAddOnly ==
    \/ \E name \in NameArgs : AddVertex(name)
    \/ \E a \in ExplicitNames, b \in ExplicitNames, l \in Labels, w \in Weights :
          AddEdge(a, b, l, w)

SpecAddOnly == Init /\ [][NextAddOnly]_vars

\* remove_edge called only on edges that are stored
Stored(db, e) ==
    e.tov.name \in DOMAIN Get(db, edges_out_key(e.fromv.name, encoder(e.label)), EmptyZ)

NextStoredRemoves ==
    \/ \E name \in NameArgs : AddVertex(name)
    \/ \E a \in ExplicitNames, b \in ExplicitNames, l \in Labels, w \in Weights :
          AddEdge(a, b, l, w)
    \/ \E e \in EdgeHandles : Stored(r, e) /\ RemoveEdge(e)
    \/ \E name \in ExplicitNames : RemoveVertex(name)

SpecStoredRemoves == Init /\ [][NextStoredRemoves]_vars

\* The property calls, on a Graph built with either codec
InitProps ==
    /\ r \in {EmptyDb, TwoVertices}
    /\ last = [op |-> "init"]
    /\ live = {}
    /\ nops = 0
    /\ codec \in Codecs
    /\ hist = [auto |-> AutoNamesOf(r), props |-> << >>]
    /\ procs = << >>

SetProperty(name, key, value) ==
    /\ nops < MaxOps
    /\ r' = set_vertex_property(codec, r, Vertex(name), key, value).db
    /\ last' = [op |-> "set_vertex_property", name |-> name, key |-> key, value |-> value,
                ret |-> set_vertex_property(codec, r, Vertex(name), key, value).ret]
    /\ hist' = [hist EXCEPT !.props =
                   [p \in DOMAIN @ \cup {<<name, key>>} |->
                       IF p = <<name, key>> THEN value ELSE @[p]]]
    /\ nops' = nops + 1
    /\ UNCHANGED <<live, codec, procs>>

GetProperty(name, key) ==
    /\ nops < MaxOps
    /\ last' = [op |-> "get_vertex_property", name |-> name, key |-> key,
                ret |-> get_vertex_property(codec, r, Vertex(name), key)]
    /\ nops' = nops + 1
    /\ UNCHANGED <<r, live, codec, hist, procs>>

NextProps ==
    \/ \E name \in NameArgs : AddVertex(name)
    \/ \E name \in ExplicitNames : RemoveVertex(name)
    \/ \E name \in ExplicitNames, key \in PropNames, value \in PropValues :
          SetProperty(name, key, value)
    \/ \E name \in ExplicitNames, key \in PropNames : GetProperty(name, key)

SpecProps == InitProps /\ [][NextProps]_vars

\* The lines of the files: "1,2", "2,3", "2, follows ,1", "2,follows,1,2", a
\* comment, a blank line, and lines that raise: five fields, one field, a weight
\* that is no number
EdgeLine == <<"1", ",", "2", "\n">>
NewVertexLine == <<"2", ",", "3", "\n">>
LabelLine == <<"2", ",", " ", "f", "o", "l", "l", "o", "w", "s", " ", ",", "1", "\n">>
WeightLine == <<"2", ",", "f", "o", "l", "l", "o", "w", "s", ",", "1", ",", "2", "\n">>
CommentLine == <<"#", "1", ",", "2", "\n">>
BlankLine == <<" ", "\n">>
FiveFieldsLine == <<"1", ",", "2", ",", "3", ",", "4", ",", "5", "\n">>
OneFieldLine == <<"1", "\n">>
BadWeightLine == <<"1", ",", ",", "2", ",", "x", "\n">>

Lines == {EdgeLine, NewVertexLine, LabelLine, WeightLine, CommentLine, BlankLine,
          FiveFieldsLine, OneFieldLine, BadWeightLine}

\* Lines of a file
MaxLines == 3
Files == UNION {[1..k -> Lines] : k \in 0..MaxLines}
ChunkSizes == {1, 2}

\* The namespace with two vertices and an edge between them
OneEdge == add_edge(TwoVertices, "1", "2", None, 1).db

\* One load_csv into a namespace
InitLoad ==
    /\ r \in {EmptyDb, TwoVertices, OneEdge}
    /\ last = [op |-> "init"]
    /\ live = {}
    /\ nops = 0
    /\ codec = "json"
    /\ hist = [auto |-> AutoNamesOf(r), props |-> << >>]
    /\ procs = << >>

Load(file, chunksize) ==
    /\ nops = 0
    /\ LET loaded == load_csv(r, file, chunksize)
       IN  /\ r' = loaded.db
           /\ last' = [op |-> "load_csv", file |-> file, chunksize |-> chunksize,
                       ret |-> loaded.ret, batches |-> loaded.batches]
    /\ nops' = nops + 1
    /\ UNCHANGED <<live, codec, hist, procs>>

NextLoad == \E file \in Files, chunksize \in ChunkSizes : Load(file, chunksize)

SpecLoad == InitLoad /\ [][NextLoad]_vars

(***************************************************************************)
(* Two callers, each making one call on the same namespace.  A step is one *)
(* round trip to Redis: a command, or the execute() of a pipeline, which   *)
(* redis-py wraps in MULTI/EXEC.  procs[i] holds caller i's call, the      *)
(* round trip it makes next (pc) and its local variables; wrote records    *)
(* where the other caller stood when an add_edge executed its pipeline.    *)
(***************************************************************************)
Callers == {1, 2}

ConcurrentCalls ==
    {[op |-> "add_vertex", name |-> n] : n \in {None, Str("1"), Str("3")}}
    \cup {[op |-> "add_edge", fromv |-> a, tov |-> b, label |-> l, weight |-> 1] :
             a \in ExplicitNames, b \in ExplicitNames, l \in Labels}
    \cup {[op |-> "remove_vertex", v |-> n] : n \in ExplicitNames}

\* The first round trip of a call
StartPc(call) ==
    IF call.op = "add_vertex" THEN (IF call.name = None THEN "incr" ELSE "sadd")
    ELSE IF call.op = "add_edge" THEN "has_from"
    ELSE "has_vertex"

Caller(call) ==
    [call |-> call,
     pc |-> StartPc(call),
     name |-> IF call.op = "remove_vertex" THEN call.v
              ELSE IF call.op = "add_vertex" /\ call.name # None THEN call.name.s
              ELSE "",
     dir |-> "out",
     labels |-> << >>,
     edges |-> << >>,
     ret |-> None,
     wrote |-> ""]

\* The namespace with the edges "1" -> "2" (label "follows") and "2" -> "1"
Linked ==
    add_edge(add_edge(TwoVertices, "1", "2", Str("follows"), 1).db, "2", "1", None, 1).db

InitConcurrent ==
    /\ r \in {EmptyDb, TwoVertices, OneEdge, Linked}
    /\ last = [op |-> "init"]
    /\ live = {}
    /\ nops = 0
    /\ codec = "json"
    /\ hist = [auto |-> AutoNamesOf(r), props |-> << >>, start |-> r]
    /\ procs \in [Callers -> {Caller(call) : call \in ConcurrentCalls}]

Returns(p, ret) == [p EXCEPT !.pc = "done", !.ret = ret]

\* One round trip of caller i: the database after it and the caller after it
RoundTrip(i, db, p) ==
    /\ r' = db
    /\ procs' = [procs EXCEPT ![i] = p]
    /\ UNCHANGED <<last, live, nops, codec, hist>>

\* add_vertex that takes the name of an unnamed vertex from the size of the
\* vertex set
name_by_order(db) ==
    [db |-> db, name |-> str(scard(db, vertices_key) + 1)]

\* add_vertex: "name = str(self._r.incr(self._counter_key))"
name_by_incr(db) ==
    [db |-> incr(db, counter_key), name |-> str(incr_reply(db, counter_key))]

AddVertexIncr(i) ==
    /\ procs[i].pc = "incr"
    /\ RoundTrip(i, name_by_incr(r).db,
                 [procs[i] EXCEPT !.name = name_by_incr(r).name, !.pc = "sadd"])

\* add_vertex: _store_vertex and the test of its reply
AddVertexStore(i) ==
    /\ procs[i].pc = "sadd"
    /\ RoundTrip(i, store_vertex(r, procs[i].name),
                 Returns(procs[i], IF store_vertex_reply(r, procs[i].name) # 1
                                   THEN Raise(AlreadyExists)
                                   ELSE Ok(Vertex(procs[i].name))))

\* add_edge: get_vertex(fromv), get_vertex(tov), then the pipeline
AddEdgeGetFrom(i) ==
    /\ procs[i].pc = "has_from"
    /\ RoundTrip(i, r, IF get_vertex(r, procs[i].call.fromv).exc # "none"
                       THEN Returns(procs[i], get_vertex(r, procs[i].call.fromv))
                       ELSE [procs[i] EXCEPT !.pc = "has_to"])

AddEdgeGetTo(i) ==
    /\ procs[i].pc = "has_to"
    /\ RoundTrip(i, r, IF get_vertex(r, procs[i].call.tov).exc # "none"
                       THEN Returns(procs[i], get_vertex(r, procs[i].call.tov))
                       ELSE [procs[i] EXCEPT !.pc = "execute"])

AddEdgeExecute(i) ==
    /\ procs[i].pc = "execute"
    /\ LET c == procs[i].call
       IN  RoundTrip(i, store_edge(r, c.fromv, c.tov, encoder(c.label), c.weight),
                     [Returns(procs[i], Ok(Edge(Vertex(c.fromv), Vertex(c.tov),
                                                c.label, c.weight)))
                         EXCEPT !.wrote = procs[3 - i].pc])

\* A remove_vertex whose loop over v.edges_in() is left out
next_step_out_only(p) ==
    IF Len(p.edges) > 0 THEN [p EXCEPT !.pc = "remove_edge"]
    ELSE IF Len(p.labels) > 0 THEN [p EXCEPT !.pc = "gen_edges"]
    ELSE [p EXCEPT !.pc = "srem"]

\* remove_vertex: where its two for loops over the generators edges_from and
\* edges_to go next: remove the next edge read, read the edges of the next
\* label, start on v.edges_in(), or leave the loops for the SREM
next_step(p) ==
    IF Len(p.edges) > 0 THEN [p EXCEPT !.pc = "remove_edge"]
    ELSE IF Len(p.labels) > 0 THEN [p EXCEPT !.pc = "gen_edges"]
    ELSE IF p.dir = "out" THEN [p EXCEPT !.dir = "in", !.pc = "gen_has_vertex"]
    ELSE [p EXCEPT !.pc = "srem"]

\* remove_vertex: get_vertex(v)
RemoveVertexGet(i) ==
    /\ procs[i].pc = "has_vertex"
    /\ RoundTrip(i, r, IF get_vertex(r, procs[i].name).exc # "none"
                       THEN Returns(procs[i], get_vertex(r, procs[i].name))
                       ELSE [procs[i] EXCEPT !.pc = "gen_has_vertex", !.dir = "out"])

\* edges_from / edges_to: get_vertex(v), when the generator is first advanced
EdgesGet(i) ==
    /\ procs[i].pc = "gen_has_vertex"
    /\ RoundTrip(i, r, IF get_vertex(r, procs[i].name).exc # "none"
                       THEN Returns(procs[i], get_vertex(r, procs[i].name))
                       ELSE [procs[i] EXCEPT !.pc = "gen_labels"])

\* edges_from / edges_to: the labels of the label index
EdgesLabels(i) ==
    /\ procs[i].pc = "gen_labels"
    /\ LET key == IF procs[i].dir = "out" THEN labels_out_key(procs[i].name)
                  ELSE labels_in_key(procs[i].name)
       IN  RoundTrip(i, r, next_step([procs[i] EXCEPT
                                         !.labels = zrangebyscore_min(r, key, 1)]))

\* edges_from / edges_to: the adjacency set of the next label
EdgesOfLabel(i) ==
    /\ procs[i].pc = "gen_edges"
    /\ LET v == Vertex(procs[i].name)
           enc == Head(procs[i].labels)
       IN  RoundTrip(i, r, next_step([procs[i] EXCEPT
                                         !.labels = Tail(@),
                                         !.edges = IF procs[i].dir = "out"
                                                   THEN edges_from_label(r, v, enc)
                                                   ELSE edges_to_label(r, v, enc)]))

\* remove_vertex: remove_edge(e), the body of the for loops
RemoveVertexRemoveEdge(i) ==
    /\ procs[i].pc = "remove_edge"
    /\ RoundTrip(i, remove_edge(r, Head(procs[i].edges)),
                 next_step([procs[i] EXCEPT !.edges = Tail(@)]))

\* remove_vertex: the SREM on the vertex set
RemoveVertexSrem(i) ==
    /\ procs[i].pc = "srem"
    /\ RoundTrip(i, srem(r, vertices_key, procs[i].name),
                 Returns(procs[i], Ok(srem_reply(r, vertices_key, procs[i].name))))

NextConcurrent ==
    \E i \in Callers :
        \/ AddVertexIncr(i)
        \/ AddVertexStore(i)
        \/ AddEdgeGetFrom(i)
        \/ AddEdgeGetTo(i)
        \/ AddEdgeExecute(i)
        \/ RemoveVertexGet(i)
        \/ EdgesGet(i)
        \/ EdgesLabels(i)
        \/ EdgesOfLabel(i)
        \/ RemoveVertexRemoveEdge(i)
        \/ RemoveVertexSrem(i)

SpecConcurrent == InitConcurrent /\ [][NextConcurrent]_vars

(***************************************************************************)
(* What the claims read                                                    *)
(***************************************************************************)
\* Every vertex name of the database or of the callers
NamesOf(db) == ExplicitNames \cup smembers(db, vertices_key)

OutAdj(db, u, l) == Get(db, edges_out_key(u, encoder(l)), EmptyZ)
InAdj(db, v, l) == Get(db, edges_in_key(v, encoder(l)), EmptyZ)

Score(z, m) == IF m \in DOMAIN z THEN z[m] ELSE 0
OutCount(db, u, l) == Score(Get(db, labels_out_key(u), EmptyZ), encoder(l))
InCount(db, v, l) == Score(Get(db, labels_in_key(v), EmptyZ), encoder(l))

\* The four key families hold the same in two databases
SameEdgeKeys(d1, d2) ==
    \A n \in NamesOf(d1) \cup NamesOf(d2) :
        /\ Get(d1, labels_out_key(n), EmptyZ) = Get(d2, labels_out_key(n), EmptyZ)
        /\ Get(d1, labels_in_key(n), EmptyZ) = Get(d2, labels_in_key(n), EmptyZ)
        /\ \A l \in Labels : /\ OutAdj(d1, n, l) = OutAdj(d2, n, l)
                             /\ InAdj(d1, n, l) = InAdj(d2, n, l)

SeqToSet(s) == {s[i] : i \in DOMAIN s}

(***************************************************************************)
(* C1: in every reachable state, each entry v with score w of              *)
(* out-adjacency(u, label) has u with score w in in-adjacency(v, label),   *)
(* and out-label-counter(u, label) and in-label-counter(v, label) are >= 1.*)
(***************************************************************************)
C1_StoredEdgeIndexed ==
    \A u \in NamesOf(r), l \in Labels :
        \A v \in DOMAIN OutAdj(r, u, l) :
            /\ u \in DOMAIN InAdj(r, v, l)
            /\ InAdj(r, v, l)[u] = OutAdj(r, u, l)[v]
            /\ OutCount(r, u, l) >= 1
            /\ InCount(r, v, l) >= 1

\* The step is a successful add_edge of a triple that was stored before it.
ReAdd ==
    /\ last'.op = "add_edge"
    /\ last'.ret.exc = "none"
    /\ last'.tov \in DOMAIN OutAdj(r, last'.fromv, last'.label)

(***************************************************************************)
(* C2: add_edge(u, v, label, w2) on a stored triple (u, v, label) sets the *)
(* stored weight to w2 and leaves out-label-counter(u, label) and          *)
(* in-label-counter(v, label) as they were before the call.                *)
(***************************************************************************)
C2_ReAddKeepsCounters ==
    [][ReAdd =>
          /\ OutAdj(r', last'.fromv, last'.label)[last'.tov] = last'.weight
          /\ InAdj(r', last'.tov, last'.label)[last'.fromv] = last'.weight
          /\ OutCount(r', last'.fromv, last'.label) = OutCount(r, last'.fromv, last'.label)
          /\ InCount(r', last'.tov, last'.label) = InCount(r, last'.tov, last'.label)]_vars

\* The step is a remove_edge of an edge that was not stored before it.
RemoveAbsent == last'.op = "remove_edge" /\ ~Stored(r, last'.e)

(***************************************************************************)
(* C3: remove_edge(e) on an edge whose triple is not stored returns        *)
(* success and changes no label counter and no adjacency set, so           *)
(* edges_from and edges_to of every vertex yield the same edges as before. *)
(***************************************************************************)
C3_RemoveAbsentIsNoOp ==
    [][RemoveAbsent =>
          /\ last'.ret = Ok(TRUE)
          /\ SameEdgeKeys(r, r')
          /\ \A v \in vertices(r) : /\ edges_from(r', v) = edges_from(r, v)
                                    /\ edges_to(r', v) = edges_to(r, v)]_vars

\* No edge yielded for another vertex, and no adjacency set of another name, holds v.
NoReference(db, v) ==
    /\ \A x \in vertices(db) :
          x.name # v =>
              /\ \A e \in SeqToSet(edges_from(db, x).val) : e.tov.name # v
              /\ \A e \in SeqToSet(edges_to(db, x).val) : e.fromv.name # v
    /\ \A x \in NamesOf(db) \ {v}, l \in Labels :
          v \notin DOMAIN OutAdj(db, x, l) /\ v \notin DOMAIN InAdj(db, x, l)

(***************************************************************************)
(* C4: once remove_vertex(v) has returned, no other vertex x has an edge   *)
(* with endpoint v in edges_from(x) or edges_to(x), and no adjacency set   *)
(* of another vertex contains v.                                           *)
(***************************************************************************)
C4_RemoveVertexLeavesNoReference ==
    [][(last'.op = "remove_vertex" /\ last'.ret.exc = "none") => NoReference(r', last'.name)]_vars

(***************************************************************************)
(* C5 as stated: for every edge (u, v, label, w) added and not removed     *)
(* since, edge_between(u, v, label) and edge_between(v, u, label) both     *)
(* return an edge and both report weight w.                                *)
(***************************************************************************)
C5_EdgeBetweenBothWays ==
    \A e \in live :
        LET fwd == edge_between(r, e.fromv, e.tov, e.label)
            bwd == edge_between(r, e.tov, e.fromv, e.label)
        IN  /\ fwd # None /\ fwd.weight = e.weight
            /\ bwd # None /\ bwd.weight = e.weight

(***************************************************************************)
(* C5 amended: for every edge (u, v, label, w) added and not removed       *)
(* since, edge_between(u, v, label) returns the edge u -> v with weight w; *)
(* edge_between(v, u, label) returns an edge too: the edge v -> u with the *)
(* score stored for it when out-adjacency(v, label) contains u, and        *)
(* otherwise the edge u -> v with weight w.                                *)
(***************************************************************************)
C5_EdgeBetweenFirstFound ==
    \A e \in live :
        LET fwd == edge_between(r, e.fromv, e.tov, e.label)
            bwd == edge_between(r, e.tov, e.fromv, e.label)
            rev == OutAdj(r, e.tov.name, e.label)
        IN  /\ fwd = e
            /\ bwd # None
            /\ IF e.fromv.name \in DOMAIN rev
               THEN bwd = Edge(e.tov, e.fromv, e.label, rev[e.fromv.name])
               ELSE bwd = e

\* An edge and its reverse are both live, with different weights.
C5_Witness ==
    \E e \in live, f \in live :
        /\ e.fromv.name # e.tov.name
        /\ Triple(f) = <<e.tov.name, e.fromv.name, e.label>>
        /\ f.weight # e.weight
        /\ last.op = "add_edge"

(***************************************************************************)
(* C6: after any sequence of add_vertex and add_edge calls, edges_from(u)  *)
(* yields exactly one edge per stored triple (u, v, label), with the       *)
(* weight of the most recent add_edge for that triple; edges of one        *)
(* ordered pair with distinct labels (None being one label) are separate   *)
(* edges.                                                                  *)
(***************************************************************************)
C6_OneEdgePerTriple ==
    \A u \in smembers(r, vertices_key) :
        LET es == edges_from(r, Vertex(u)).val
            mine == {e \in live : e.fromv.name = u}
        IN  /\ Len(es) = Cardinality(mine)
            /\ \A e \in mine : Cardinality({i \in DOMAIN es : es[i] = e}) = 1
            /\ \A l \in Labels :
                  \A v \in DOMAIN OutAdj(r, u, l) :
                      Cardinality({i \in DOMAIN es : Triple(es[i]) = <<u, v, l>>}) = 1

\* Two edges of one ordered pair with distinct labels, one of them just re-added
\* with another weight.
C6_Witness ==
    /\ last.op = "add_edge"
    /\ last.ret.exc = "none"
    /\ OutCount(r, last.fromv, last.label) = 2
    /\ \E e \in live, f \in live :
          /\ Triple(e) = <<last.fromv, last.tov, last.label>>
          /\ e.weight = 2
          /\ f.fromv = e.fromv /\ f.tov = e.tov /\ f.label # e.label

(***************************************************************************)
(* C7: for every vertex v, v.out_e.in_v and v.out_v hold exactly one       *)
(* member per distinct target vertex name of v's outgoing edges, so their  *)
(* size is the number of distinct target names.                            *)
(***************************************************************************)
C7_OutVDeduplicated ==
    \A n \in smembers(r, vertices_key) :
        LET v == VertexObject(n)
            es == edges_from(r, Vertex(n)).val
            targets == {es[i].tov.name : i \in DOMAIN es}
            viaE == EdgeSet_in_v(Vertex_out_e(r, v))
            viaV == Vertex_out_v(r, v)
        IN  /\ {x.name : x \in viaE} = targets
            /\ {x.name : x \in viaV} = targets
            /\ Cardinality(viaE) = Cardinality(targets)
            /\ Cardinality(viaV) = Cardinality(targets)

\* The step is add_vertex(n) with n outside the vertex set; add_vertex(); their success.
AddNewName ==
    /\ last'.op = "add_vertex"
    /\ last'.name # None
    /\ ~has_vertex(r, Vertex(last'.name.s))

AddAuto == last'.op = "add_vertex" /\ last'.name = None

AddNewNameSucceeds ==
    /\ last'.ret = Ok(Vertex(last'.name.s))
    /\ has_vertex(r', Vertex(last'.name.s))

(***************************************************************************)
(* C8 as stated: add_vertex(n) for a name n not in the vertex set succeeds *)
(* and has_vertex(n) holds right after; add_vertex() with no name returns  *)
(* a handle whose vertex is extant, and the number of vertices grows by 1. *)
(***************************************************************************)
C8_AddVertexSucceeds ==
    [][/\ AddNewName => AddNewNameSucceeds
       /\ AddAuto => /\ last'.ret.exc = "none"
                     /\ has_vertex(r', last'.ret.val)
                     /\ order(r') = order(r) + 1]_vars

(***************************************************************************)
(* C8 amended: add_vertex(n) for a name n not in the vertex set succeeds   *)
(* and has_vertex(n) holds right after; add_vertex() with no name          *)
(* increments the namespace counter and takes its decimal form as the      *)
(* name: when that name is not in the vertex set the call returns a handle *)
(* whose vertex is extant and the number of vertices grows by 1, and when  *)
(* the name is already in the vertex set the call fails with AlreadyExists *)
(* and the vertex set is unchanged.                                        *)
(***************************************************************************)
C8_AddVertexUnlessTaken ==
    [][/\ AddNewName => AddNewNameSucceeds
       /\ AddAuto =>
            LET n == Get(r, counter_key, 0) + 1
            IN  /\ Get(r', counter_key, 0) = n
                /\ IF has_vertex(r, Vertex(str(n)))
                   THEN /\ Raised(last'.ret, AlreadyExists)
                        /\ smembers(r', vertices_key) = smembers(r, vertices_key)
                   ELSE /\ last'.ret = Ok(Vertex(str(n)))
                        /\ has_vertex(r', last'.ret.val)
                        /\ order(r') = order(r) + 1]_vars

\* add_vertex() drew a name that an explicit add_vertex had taken.
C8_Witness ==
    /\ last.op = "add_vertex"
    /\ last.name = None
    /\ Raised(last.ret, AlreadyExists)
    /\ has_vertex(r, Vertex(str(Get(r, counter_key, 0))))

\* The step is add_vertex(n) with n in the vertex set.
AddTakenName ==
    /\ last'.op = "add_vertex"
    /\ last'.name # None
    /\ has_vertex(r, Vertex(last'.name.s))

(***************************************************************************)
(* C9: add_vertex(n) with an explicit name n already in the vertex set     *)
(* fails with AlreadyExists, and order() is the same after the call as     *)
(* before it.                                                              *)
(***************************************************************************)
C9_AddTakenNameFails ==
    [][AddTakenName => /\ Raised(last'.ret, AlreadyExists)
                       /\ order(r') = order(r)]_vars

\* An explicit add_vertex of a name in the vertex set has just failed.
C9_Witness ==
    /\ last.op = "add_vertex"
    /\ last.name # None
    /\ Raised(last.ret, AlreadyExists)
    /\ order(r) >= 1

\* The step is an add_edge with an endpoint outside the vertex set.
AddEdgeMissingEndpoint ==
    /\ last'.op = "add_edge"
    /\ ~has_vertex(r, Vertex(last'.fromv)) \/ ~has_vertex(r, Vertex(last'.tov))

(***************************************************************************)
(* C10: add_edge fails with NotFound when either endpoint is not in the    *)
(* vertex set, and then none of the four keys (out/in label counters,      *)
(* out/in adjacency sets) is modified.                                     *)
(***************************************************************************)
C10_AddEdgeNotFound ==
    [][AddEdgeMissingEndpoint => /\ Raised(last'.ret, NotFound)
                                 /\ SameEdgeKeys(r, r')]_vars

\* add_edge has just failed on a missing target while the source exists.
C10_Witness ==
    /\ last.op = "add_edge"
    /\ Raised(last.ret, NotFound)
    /\ has_vertex(r, Vertex(last.fromv))
    /\ ~has_vertex(r, Vertex(last.tov))

\* No name occurs twice in a sequence
Distinct(names) == \A i \in DOMAIN names, j \in DOMAIN names : i # j => names[i] # names[j]

(***************************************************************************)
(* C14: the namespace counter never decreases, and the names returned by   *)
(* the add_vertex() calls of the whole history are pairwise distinct, also *)
(* after auto-named vertices have been removed.                            *)
(***************************************************************************)
C14_AutoNamesNeverReused ==
    [][/\ Get(r', counter_key, 0) >= Get(r, counter_key, 0)
       /\ Distinct(hist.auto)
       /\ Distinct(hist'.auto)]_vars

\* add_vertex() has just returned a name while an earlier auto-named vertex is gone.
C14_Witness ==
    /\ last.op = "add_vertex"
    /\ last.name = None
    /\ last.ret.exc = "none"
    /\ \E i \in DOMAIN hist.auto : ~has_vertex(r, Vertex(hist.auto[i]))

\* The stored edges: the entries of the out-adjacency sets
StoredEdges(db) ==
    UNION {{Edge(Vertex(u), Vertex(v), l, OutAdj(db, u, l)[v]) : v \in DOMAIN OutAdj(db, u, l)} :
              u \in NamesOf(db), l \in Labels}

\* A sequence holds exactly the members of a set, each once
YieldsExactly(es, S) == SeqToSet(es) = S /\ Len(es) = Cardinality(S)

(***************************************************************************)
(* C18: when remove_edge is only called on stored edges, every label       *)
(* counter is >= the number of entries of its adjacency-by-label set, and  *)
(* edges_from(v) / edges_to(v) yield exactly the stored edges leaving /    *)
(* entering v, each once.                                                  *)
(***************************************************************************)
C18_CountersCoverEntries ==
    /\ \A n \in NamesOf(r), l \in Labels :
          /\ OutCount(r, n, l) >= Cardinality(DOMAIN OutAdj(r, n, l))
          /\ InCount(r, n, l) >= Cardinality(DOMAIN InAdj(r, n, l))
    /\ \A v \in vertices(r) :
          /\ YieldsExactly(edges_from(r, v).val, {e \in StoredEdges(r) : e.fromv = v})
          /\ YieldsExactly(edges_to(r, v).val, {e \in StoredEdges(r) : e.tov = v})

\* A stored edge that had been added twice has just been removed: its counters
\* stay above the number of entries.
C18_Witness ==
    /\ last.op = "remove_edge"
    /\ OutCount(r, last.e.fromv.name, last.e.label)
          > Cardinality(DOMAIN OutAdj(r, last.e.fromv.name, last.e.label))
    /\ InCount(r, last.e.tov.name, last.e.label)
          > Cardinality(DOMAIN InAdj(r, last.e.tov.name, last.e.label))

\* The namespace with two vertices after remove_edge was called on the edge
\* "2" -> "2" (label None), which was never stored
AfterRemoveEdge == remove_edge(TwoVertices, Edge(Vertex("2"), Vertex("2"), None, 1))

InitAfterRemoveEdge ==
    /\ r = AfterRemoveEdge
    /\ last = [op |-> "remove_edge", e |-> Edge(Vertex("2"), Vertex("2"), None, 1),
               ret |-> Ok(TRUE)]
    /\ live = {}
    /\ nops = 0
    /\ codec = "json"
    /\ hist = [auto |-> AutoNamesOf(r), props |-> << >>]
    /\ procs = << >>

\* The calls of Spec, made after that remove_edge
SpecAfterRemoveEdge == InitAfterRemoveEdge /\ [][Next]_vars

\* The edges from x to y that edges_from(x) and edges_to(y) yield, and how many
\* times they yield one
FromTo(db, x, y) ==
    LET es == SelectSeq(edges_from(db, x).val, LAMBDA e : e.tov = y)
    IN  [edges |-> SeqToSet(es), yielded |-> Len(es)]
ToFrom(db, x, y) ==
    LET es == SelectSeq(edges_to(db, y).val, LAMBDA e : e.fromv = x)
    IN  [edges |-> SeqToSet(es), yielded |-> Len(es)]

\* The step is a remove_vertex that returned
RemovedVertex == last'.op = "remove_vertex" /\ last'.ret.exc = "none"

(***************************************************************************)
(* C19: remove_vertex(v) changes only edges incident to v: for all         *)
(* vertices x # v and y # v the edges between x and y that edges_from(x)   *)
(* and edges_to(y) yield are the same after the call as before it, and     *)
(* every vertex other than v stays in the vertex set.                      *)
(***************************************************************************)
C19_RemoveVertexFrame ==
    [][RemovedVertex =>
          /\ smembers(r', vertices_key) = smembers(r, vertices_key) \ {last'.name}
          /\ \A x \in vertices(r'), y \in vertices(r') :
                /\ FromTo(r', x, y) = FromTo(r, x, y)
                /\ ToFrom(r', x, y) = ToFrom(r, x, y)]_vars

\* The value the last set_vertex_property(v, k, .) was given, if any
WasSet(name, key) == <<name, key>> \in DOMAIN hist.props
LastSet(name, key) == hist.props[<<name, key>>]

\* The Graph's encoder/decoder pair round-trips the value
RoundTrips(c, value) == decode(c, encode(c, value)) = value

(***************************************************************************)
(* C11: with an encoder/decoder pair that round-trips val (also when the   *)
(* encoding of val is the empty string or a zero), get_vertex_property(v,  *)
(* k) returns the val that set_vertex_property(v, k, val) stored last, and *)
(* it fails, with KeyError for k, only when k was never set on v.          *)
(***************************************************************************)
C11_PropertyRoundTrip ==
    last.op = "get_vertex_property" =>
        IF WasSet(last.name, last.key)
        THEN /\ last.ret.exc = "none"
             /\ RoundTrips(codec, LastSet(last.name, last.key)) =>
                   last.ret = Ok(LastSet(last.name, last.key))
        ELSE last.ret = KeyError(last.key)

\* The property hash of a vertex name and what get_vertex_property returns
PropertyMap(db, name) == Get(db, vertex_key(name), EmptyH)
PropertyGets(db, name) ==
    [key \in PropNames |-> get_vertex_property(codec, db, Vertex(name), key)]

(***************************************************************************)
(* C20: remove_vertex(v) leaves v's property map untouched, and so does    *)
(* add_vertex: over each such call the property hash of every name and the *)
(* result of get_vertex_property for every name and key stay what they     *)
(* were, so a property set before remove_vertex(v) is returned as before   *)
(* while v is absent and after v is added again.                           *)
(***************************************************************************)
C20_RemoveVertexKeepsProperties ==
    [][last'.op \in {"remove_vertex", "add_vertex"} =>
          \A name \in NamesOf(r) \cup NamesOf(r') :
             /\ PropertyMap(r', name) = PropertyMap(r, name)
             /\ PropertyGets(r', name) = PropertyGets(r, name)]_vars

\* remove_vertex(v) has returned, v is absent, and a property set on v before
\* is still returned
C20_Witness ==
    /\ last.op = "remove_vertex" /\ last.ret.exc = "none"
    /\ ~has_vertex(r, Vertex(last.name))
    /\ \E key \in PropNames :
          /\ WasSet(last.name, key)
          /\ get_vertex_property(codec, r, Vertex(last.name), key)
                = Ok(LastSet(last.name, key))

\* What each line of the files says: the record (from, to, label, weight) it
\* holds, nothing, a wrong number of fields, or a weight that is no number
Meaning(line) ==
    CASE line = EdgeLine -> [kind |-> "record", fromv |-> "1", tov |-> "2",
                             label |-> None, weight |-> 1]
      [] line = NewVertexLine -> [kind |-> "record", fromv |-> "2", tov |-> "3",
                                  label |-> None, weight |-> 1]
      [] line = LabelLine -> [kind |-> "record", fromv |-> "2", tov |-> "1",
                              label |-> Str("follows"), weight |-> 1]
      [] line = WeightLine -> [kind |-> "record", fromv |-> "2", tov |-> "1",
                               label |-> Str("follows"), weight |-> 2]
      [] line \in {CommentLine, BlankLine} -> [kind |-> "nothing"]
      [] line \in {FiveFieldsLine, OneFieldLine} -> [kind |-> "fields"]
      [] line = BadWeightLine -> [kind |-> "weight"]

IsRecord(line) == Meaning(line).kind = "record"
AllValid(file) == \A i \in DOMAIN file : Meaning(file[i]).kind \in {"record", "nothing"}

\* The first line of the file that is neither a record nor skipped; 0 if none
FirstBad(file) ==
    IF AllValid(file) THEN 0
    ELSE CHOOSE i \in DOMAIN file :
            /\ Meaning(file[i]).kind \in {"fields", "weight"}
            /\ AllValid(SubSeq(file, 1, i - 1))

\* The number of records among lines a..b of the file
Records(file, a, b) == Cardinality({i \in a..b : i \in DOMAIN file /\ IsRecord(file[i])})

\* The endpoint names of the records of the file
Endpoints(file) ==
    UNION {{Meaning(file[i]).fromv, Meaning(file[i]).tov} :
              i \in {j \in DOMAIN file : IsRecord(file[j])}}

\* add_vertex(n) unless n is in the vertex set
AddIfAbsent(db, n) == IF has_vertex(db, Vertex(n)) THEN db ELSE add_vertex(db, Str(n)).db

\* The records of the lines, in file order: add each endpoint if absent, then
\* add_edge; the other lines contribute nothing
RECURSIVE Sequentially(_, _)
Sequentially(db, lines) ==
    IF Len(lines) = 0 THEN db
    ELSE LET m == Meaning(Head(lines))
         IN  IF m.kind # "record" THEN Sequentially(db, Tail(lines))
             ELSE Sequentially(add_edge(AddIfAbsent(AddIfAbsent(db, m.fromv), m.tov),
                                        m.fromv, m.tov, m.label, m.weight).db,
                               Tail(lines))

\* The lines of the chunks before the one that holds line i
FlushedBefore(file, chunksize, i) == SubSeq(file, 1, chunksize * ((i - 1) \div chunksize))

\* The step is a load_csv of a file whose first bad line has a wrong number of
\* fields
LoadedBadFields ==
    /\ last'.op = "load_csv"
    /\ FirstBad(last'.file) # 0
    /\ Meaning(last'.file[FirstBad(last'.file)]).kind = "fields"

(***************************************************************************)
(* C12: a load of a file with a record of a field count other than 2, 3 or *)
(* 4 fails with RuntimeError ("invalid record"); the records of every      *)
(* batch flushed before the batch with the bad line are in the store as    *)
(* add_edge leaves them, and nothing else of the file is: no line of the   *)
(* bad batch and no line after it is applied.                              *)
(***************************************************************************)
C12_BadRecordFailsLoad ==
    [][LoadedBadFields =>
          /\ last'.ret.exc = "RuntimeError"
          /\ r' = Sequentially(r, FlushedBefore(last'.file, last'.chunksize,
                                                FirstBad(last'.file)))]_vars

\* A load into the empty namespace failed on a bad record that is not the last
\* line, and a batch flushed before it is in the store
C12_Witness ==
    /\ last.op = "load_csv" /\ last.ret.exc = "RuntimeError"
    /\ FirstBad(last.file) \in 1..(Len(last.file) - 1)
    /\ hist.auto = << >>
    /\ order(r) > 0

(***************************************************************************)
(* C13: a load of a file of valid records, blank lines and comment lines   *)
(* returns and leaves the database as processing the records in file order *)
(* does, each with: add the endpoints to the vertex set if absent, then    *)
(* add_edge(from, to, label, weight); blank and comment lines contribute   *)
(* nothing.  In the empty namespace order() is then the number of distinct *)
(* endpoint names.                                                         *)
(***************************************************************************)
C13_LoadIsSequentialAddEdge ==
    [][(last'.op = "load_csv" /\ AllValid(last'.file)) =>
          /\ last'.ret = Ok(None)
          /\ r' = Sequentially(r, last'.file)
          /\ r = EmptyDb => order(r') = Cardinality(Endpoints(last'.file))]_vars

\* A file with a record, a skipped line and three endpoint names was loaded
\* into the empty namespace
C13_Witness ==
    /\ last.op = "load_csv" /\ AllValid(last.file) /\ last.ret = Ok(None)
    /\ \E i \in DOMAIN last.file : Meaning(last.file[i]).kind = "nothing"
    /\ hist.auto = << >>
    /\ order(r) = 3

\* The records the executed pipelines applied
RECURSIVE Committed(_)
Committed(batches) ==
    IF Len(batches) = 0 THEN 0 ELSE Head(batches).records + Committed(Tail(batches))

\* The load failed on a line with a wrong number of fields
LoadAborted == last.op = "load_csv" /\ last.ret.exc = "RuntimeError"

(***************************************************************************)
(* C15 as stated: the loader groups the valid records into batches of      *)
(* chunksize: every flushed batch except the last applies exactly          *)
(* chunksize records, and when the load aborts on a malformed line the     *)
(* number of records committed is the largest multiple of chunksize not    *)
(* above the number of valid records before the bad line.                  *)
(***************************************************************************)
C15_BatchesOfRecords ==
    last.op = "load_csv" =>
        /\ \A k \in 1..(Len(last.batches) - 1) : last.batches[k].records = last.chunksize
        /\ LoadAborted =>
              Committed(last.batches)
                 = last.chunksize * (Records(last.file, 1, FirstBad(last.file) - 1)
                                        \div last.chunksize)

(***************************************************************************)
(* C15 amended: the loader groups the lines of the file, blank and comment *)
(* lines included, into batches of chunksize consecutive lines: every      *)
(* flushed batch except the last of a completed load covers exactly        *)
(* chunksize lines, and each applies the records among its lines.  When    *)
(* the load aborts on line i, the batches flushed are the (i - 1) \div     *)
(* chunksize batches before the one with line i, and the records committed *)
(* are those among the first chunksize * ((i - 1) \div chunksize) lines.   *)
(***************************************************************************)
C15_BatchesOfLines ==
    last.op = "load_csv" =>
        LET n == last.chunksize
            i == FirstBad(last.file)
            flushed == IF i = 0 THEN (Len(last.file) + n - 1) \div n ELSE (i - 1) \div n
        IN  /\ Len(last.batches) = flushed
            /\ \A k \in 1..flushed :
                  /\ last.batches[k].lines
                        = IF k * n <= Len(last.file) THEN n ELSE Len(last.file) - (k - 1) * n
                  /\ last.batches[k].records = Records(last.file, (k - 1) * n + 1, k * n)
            /\ (i # 0) => Committed(last.batches) = Records(last.file, 1, n * ((i - 1) \div n))

\* The load aborted after it flushed a batch that held a skipped line and a
\* record
C15_Witness ==
    /\ LoadAborted
    /\ \E k \in DOMAIN last.batches :
          /\ last.batches[k].lines = last.chunksize
          /\ last.batches[k].records \in 1..(last.chunksize - 1)

\* Both callers have returned or raised
AllDone == \A i \in Callers : procs[i].pc = "done"

\* Both callers call add_vertex(n), and n was not in the vertex set
BothAddNew(n) ==
    /\ \A i \in Callers : procs[i].call = [op |-> "add_vertex", name |-> Str(n)]
    /\ n \notin smembers(hist.start, vertices_key)

\* Both callers call add_vertex() and have their names from the counter
BothAddAuto ==
    \A i \in Callers : /\ procs[i].call = [op |-> "add_vertex", name |-> None]
                       /\ procs[i].pc \in {"sadd", "done"}

(***************************************************************************)
(* C16: when both callers call add_vertex(n) with the same explicit name n *)
(* that is not in the vertex set, then under every interleaving of their   *)
(* commands one call returns the vertex, the other raises AlreadyExists,   *)
(* and n is in the vertex set; two concurrent add_vertex() calls obtain    *)
(* different names from the counter.                                       *)
(***************************************************************************)
C16_ConcurrentAddVertex ==
    /\ \A n \in {"1", "3"} :
          (BothAddNew(n) /\ AllDone) =>
             /\ \E i \in Callers : /\ procs[i].ret = Ok(Vertex(n))
                                   /\ Raised(procs[3 - i].ret, AlreadyExists)
             /\ has_vertex(r, Vertex(n))
    /\ BothAddAuto => procs[1].name # procs[2].name

\* Both add_vertex("3") calls are over, the second caller's succeeded
C16_Witness ==
    /\ BothAddNew("3") /\ AllDone
    /\ procs[2].ret = Ok(Vertex("3"))
    /\ Raised(procs[1].ret, AlreadyExists)

\* Caller i runs add_edge(u, v) and the other caller remove_vertex(v)
AddsEdgeToRemoved(i) ==
    /\ procs[i].call.op = "add_edge"
    /\ procs[3 - i].call = [op |-> "remove_vertex", v |-> procs[i].call.tov]

\* The adjacency entries whose member is not in the vertex set
Orphans(db) ==
    {e \in {"out"} \X NamesOf(db) \X Labels \X NamesOf(db) :
        /\ e[4] \in DOMAIN OutAdj(db, e[2], e[3])
        /\ ~has_vertex(db, Vertex(e[4]))}
    \cup {e \in {"in"} \X NamesOf(db) \X Labels \X NamesOf(db) :
             /\ e[4] \in DOMAIN InAdj(db, e[2], e[3])
             /\ ~has_vertex(db, Vertex(e[4]))}

(***************************************************************************)
(* C17 as stated: with one caller running add_edge(u, v) and the other     *)
(* remove_vertex(v), interleaved round trip by round trip, after both      *)
(* calls have completed no adjacency set contains a vertex name that is    *)
(* absent from the vertex set.                                             *)
(***************************************************************************)
C17_NoOrphanAfterBoth ==
    \A i \in Callers : (AddsEdgeToRemoved(i) /\ AllDone) => Orphans(r) = {}

(***************************************************************************)
(* C17 amended: after both calls have completed, the only adjacency        *)
(* entries that can name a vertex absent from the vertex set are those of  *)
(* the edge u -> v that add_edge wrote.  Such an entry is left only when   *)
(* both calls succeeded and the pipeline of add_edge executed after the    *)
(* first round trip of remove_vertex; it is left whenever the pipeline     *)
(* executed after remove_vertex had read the last adjacency set.           *)
(***************************************************************************)
C17_OrphanIsTheAddedEdge ==
    \A i \in Callers :
       (AddsEdgeToRemoved(i) /\ AllDone) =>
          LET c == procs[i].call
          IN  /\ Orphans(r) \subseteq {<<"out", c.fromv, c.label, c.tov>>,
                                       <<"in", c.tov, c.label, c.fromv>>}
              /\ Orphans(r) # {} =>
                    /\ procs[i].ret.exc = "none"
                    /\ procs[3 - i].ret.exc = "none"
                    /\ procs[i].wrote # "has_vertex"
              /\ procs[i].wrote \in {"srem", "done"} => Orphans(r) # {}

\* Both calls succeeded and the entry of the added edge names the removed vertex
C17_Witness ==
    \E i \in Callers :
       /\ AddsEdgeToRemoved(i) /\ AllDone
       /\ procs[i].ret.exc = "none" /\ procs[3 - i].ret.exc = "none"
       /\ <<"out", procs[i].call.fromv, procs[i].call.label, procs[i].call.tov>>
             \in Orphans(r)

=============================================================================
